---- MODULE Spec2Model ----
(***************************************************************************)
(* LS-8 emulator core (project/ls8/cpu.js): the CPU object, its public     *)
(* methods and the interval clock that drives tick().                      *)
(*                                                                         *)
(* JavaScript values are modelled as tuples:                               *)
(*   <<>>        undefined                                                 *)
(*   <<n, d>>    the number n/d in lowest terms, d > 0                     *)
(*   <<0, 0>>    NaN,   <<1, 0>>  Infinity                                 *)
(* An uncaught exception ends the run: nothing in the code catches one,    *)
(* so `thrown` other than "none" is terminal.                              *)
(***************************************************************************)
EXTENDS Integers, Sequences, FiniteSets, TLC

\* ------------------------------------------------------------------ bounds
MaxSteps == 2
MaxTimers == 1
MaxOperand == 255
MaxFlagCalls == 4

\* --------------------------------------------------------- source constants
IM == 5
IS == 6
SP == 7

FL_EQ == 1
FL_GT == 2
FL_LT == 4

ADD == 168
AND == 179
CALL == 72
CMP == 160
DEC == 121
DIV == 171
HLT == 1
INC == 120
INT == 74
IRET == 11
JEQ == 81
JGT == 84
JLT == 83
JMP == 80
JNE == 82
LD == 152
LDI == 153
MOD == 172
MUL == 170
NOP == 0
NOT == 112
OR == 177
POP == 76
PRA == 66
PRN == 67
PUSH == 77
RET == 9
ST == 154
SUB == 169
XOR == 178

NumRegs == 8
MemSize == 256

VARIABLES
  reg,          \* this.reg: the array slots (index -> value)
  PC,           \* this.reg.PC
  IR,           \* this.reg.IR
  FL,           \* this.reg.FL (never assigned by the constructor)
  ram,          \* this.ram: address -> value
  branchTable,  \* this.branchTable: opcode byte -> method name or "undefined"
  clock,        \* this.clock: "unset", "armed" (a live interval) or "cleared"
  timers,       \* number of live interval timers
  output,       \* lines written by console.log, in order
  thrown,       \* the uncaught exception that ended the run, or "none"
  ret,          \* the value returned by the last method call
  last,         \* the last method called and its arguments
  steps         \* number of method calls so far

vars == <<reg, PC, IR, FL, ram, branchTable, clock, timers, output, thrown, ret, last, steps>>

\* ------------------------------------------------------- JavaScript values
Undefined == <<>>
NaN == <<0, 0>>
Infinity == <<1, 0>>
Num(n) == <<n, 1>>

IsFinite(v) == Len(v) = 2 /\ v[2] > 0
IsInt(v) == Len(v) = 2 /\ v[2] = 1

RECURSIVE Gcd(_, _)
Gcd(a, b) == IF b = 0 THEN a ELSE Gcd(b, a % b)

\* the quotient n / d of a non-negative n and a positive d
Ratio(n, d) == LET g == Gcd(n, d) IN <<n \div g, d \div g>>

\* operand values the arithmetic is modelled on
OperandOK(v) == v = Undefined \/ (IsInt(v) /\ v[1] \in 0..MaxOperand)

JsAdd(a, b) == IF a = Undefined \/ b = Undefined THEN NaN ELSE Num(a[1] + b[1])
JsSub(a, b) == IF a = Undefined \/ b = Undefined THEN NaN ELSE Num(a[1] - b[1])
JsMul(a, b) == IF a = Undefined \/ b = Undefined THEN NaN ELSE Num(a[1] * b[1])
JsDiv(a, b) ==
  IF a = Undefined \/ b = Undefined THEN NaN
  ELSE IF b[1] = 0 THEN (IF a[1] = 0 THEN NaN ELSE Infinity)
  ELSE Ratio(a[1], b[1])

\* truncation of a finite value toward zero
Trunc(v) == IF v[1] >= 0 THEN v[1] \div v[2] ELSE -((-v[1]) \div v[2])

\* ToInt32 of a value, as the bitwise operators apply it; every finite value
\* of the model is below 2^31 in magnitude, where ToInt32 only truncates
ToInt32(v) == IF IsFinite(v) THEN Trunc(v) ELSE 0

\* a & b on two's-complement integers (\div and % round toward minus infinity)
RECURSIVE BitAnd(_, _)
BitAnd(a, b) ==
  IF a = 0 \/ b = 0 THEN 0
  ELSE IF a = -1 THEN b
  ELSE IF b = -1 THEN a
  ELSE (a % 2) * (b % 2) + 2 * BitAnd(a \div 2, b \div 2)

\* a | b on two's-complement integers
RECURSIVE BitOr(_, _)
BitOr(a, b) ==
  IF a = 0 THEN b
  ELSE IF b = 0 THEN a
  ELSE IF a = -1 \/ b = -1 THEN -1
  ELSE (IF a % 2 = 1 \/ b % 2 = 1 THEN 1 ELSE 0) + 2 * BitOr(a \div 2, b \div 2)

\* ~a
BitNot(a) == -a - 1

\* parseInt(v): the integer the decimal text of v starts with
ParseInt(v) == IF IsFinite(v) THEN Num(Trunc(v)) ELSE NaN

\* String.fromCharCode(v): the UTF-16 code unit ToUint16(v)
CharCode(v) == IF IsFinite(v) THEN Trunc(v) % 65536 ELSE 0

\* ------------------------------------------------------------ input sets
RegArgs == {0, 1, 7, 8}
ByteArgs == {0, 1, 255}
PokeAddrs == {0, 256}
PokeVals == {HLT, CALL, JEQ, 255}
Flags == {FL_EQ, FL_GT, FL_LT}

\* the end-to-end program: R0 = 8, R1 = 9, R0 += R1, print R0, halt
Add17 == <<LDI, 0, 8, LDI, 1, 9, ADD, 0, 1, PRN, 0, HLT>>

\* memory images handed to the constructor: the bytes of a program from
\* address 0, zero elsewhere
Programs == {Add17, <<JMP, 1>>}

Image(p) == [a \in 0..(MemSize - 1) |-> IF a < Len(p) THEN Num(p[a + 1]) ELSE Num(0)]

\* ------------------------------------------------------------------ memory
ValidAddress(a) == IsInt(a) /\ a[1] \in 0..(MemSize - 1)
ram_read(address) == ram[address[1]]
ram_write(address, value) == [ram EXCEPT ![address[1]] = value]

\* ---------------------------------------------------------------- registers
RegGet(r) == IF r \in DOMAIN reg THEN reg[r] ELSE Undefined
RegSet(r, v) == (r :> v) @@ reg

\* ------------------------------------------------------------ construction
Methods ==
  { "HLT", "LDI", "ADD", "CALL", "CMP", "DEC", "DIV", "INC", "JEQ", "JGT", "JLT",
    "JMP", "JNE", "LD", "MOD", "MUL", "NOT", "OR", "POP", "PRA", "PRN", "PUSH",
    "RET", "ST", "SUB", "XOR" }

Method(name) == IF name \in Methods THEN name ELSE "undefined"

setupBranchTable ==
  (ADD :> Method("ADD")) @@ (AND :> Method("AND")) @@ (CALL :> Method("CALL")) @@
  (CMP :> Method("CMP")) @@ (DEC :> Method("DEC")) @@ (DIV :> Method("DIV")) @@
  (HLT :> Method("HLT")) @@ (INC :> Method("INC")) @@ (INT :> Method("INT")) @@
  (IRET :> Method("IRET")) @@ (JEQ :> Method("JEQ")) @@ (JGT :> Method("JGT")) @@
  (JLT :> Method("JLT")) @@ (JMP :> Method("JMP")) @@ (JNE :> Method("JNE")) @@
  (LD :> Method("LD")) @@ (LDI :> Method("LDI")) @@ (MOD :> Method("MOD")) @@
  (MUL :> Method("MUL")) @@ (NOP :> Method("NOP")) @@ (NOT :> Method("NOT")) @@
  (OR :> Method("OR")) @@ (POP :> Method("POP")) @@ (PRA :> Method("PRA")) @@
  (PRN :> Method("PRN")) @@ (PUSH :> Method("PUSH")) @@ (RET :> Method("RET")) @@
  (ST :> Method("ST")) @@ (SUB :> Method("SUB")) @@ (XOR :> Method("XOR"))

Init ==
  /\ reg = [i \in 0..(NumRegs - 1) |-> Num(0)]
  /\ PC = 0
  /\ IR = Num(0)
  /\ FL = Undefined
  /\ ram \in {Image(p) : p \in Programs}
  /\ branchTable = setupBranchTable
  /\ clock = "unset"
  /\ timers = 0
  /\ output = <<>>
  /\ thrown = "none"
  /\ ret = Undefined
  /\ last = <<"constructor", -1, -1>>
  /\ steps = 0

\* a method can be called while no exception has ended the run
Ready == thrown = "none" /\ steps < MaxSteps
Called(name, a, b) == last' = <<name, a, b>> /\ steps' = steps + 1

\* ------------------------------------------------------------------- poke
poke(address, value) ==
  /\ Ready
  /\ Called("poke", address, value)
  /\ IF ValidAddress(Num(address))
       THEN ram' = ram_write(Num(address), Num(value)) /\ thrown' = "none"
       ELSE ram' = ram /\ thrown' = "AddressOutOfRange"
  /\ ret' = Undefined
  /\ UNCHANGED <<reg, PC, IR, FL, branchTable, clock, timers, output>>

\* ------------------------------------------------------------------ clock
startClock ==
  /\ Ready
  /\ timers < MaxTimers
  /\ Called("startClock", -1, -1)
  /\ clock' = "armed"
  /\ timers' = timers + 1
  /\ ret' = Undefined
  /\ UNCHANGED <<reg, PC, IR, FL, ram, branchTable, output, thrown>>

\* clearInterval(this.clock): cancels the interval the handle names, if live
clearInterval == IF clock = "armed" THEN <<"cleared", timers - 1>> ELSE <<clock, timers>>

stopClock ==
  /\ Ready
  /\ Called("stopClock", -1, -1)
  /\ clock' = clearInterval[1]
  /\ timers' = clearInterval[2]
  /\ ret' = Undefined
  /\ UNCHANGED <<reg, PC, IR, FL, ram, branchTable, output, thrown>>

\* ---------------------------------------------------------------- setFlag
\* a setFlag that assigns the flag instead of combining it with Flags
FlagAssigned(flag, value) == IF value = TRUE THEN Num(flag) ELSE Num(0)

\* the value setFlag(flag, value) leaves in this.reg.FL
FlagAfter(flag, value) ==
  IF value = TRUE
    THEN Num(BitOr(ToInt32(FL), flag))
    ELSE Num(BitAnd(ToInt32(FL), BitNot(flag)))

\* the body of setFlag
CPU_setFlag(flag, value) ==
  /\ Called("setFlag", flag, IF value THEN 1 ELSE 0)
  /\ FL' = FlagAfter(flag, value)
  /\ ret' = Undefined
  /\ UNCHANGED <<reg, PC, IR, ram, branchTable, clock, timers, output, thrown>>

setFlag(flag, value) == Ready /\ CPU_setFlag(flag, value)

\* setFlag called again and again on one CPU, and nothing else
setFlagSeries(flag, value) ==
  thrown = "none" /\ steps < MaxFlagCalls /\ CPU_setFlag(flag, value)

\* -------------------------------------------------------------------- alu
\* the registers after alu(op, regA, regB); an op with no case changes nothing
alu(op, regA, regB) ==
  CASE op = "ADD" -> RegSet(regA, JsAdd(RegGet(regA), RegGet(regB)))
    [] op = "SUB" -> RegSet(regA, JsSub(RegGet(regA), RegGet(regB)))
    [] op = "MUL" -> RegSet(regA, JsMul(RegGet(regA), RegGet(regB)))
    [] op = "DIV" -> IF regB = 0 THEN reg
                     ELSE RegSet(regA, JsDiv(RegGet(regA), RegGet(regB)))
    [] op = "INC" -> RegSet(regA, JsAdd(RegGet(regA), Num(1)))
    [] op = "DEC" -> RegSet(regA, JsSub(RegGet(regA), Num(1)))
    [] OTHER -> reg

\* the operands alu(op, regA, regB) reads are within the modelled values
aluOperands(op, regA, regB) ==
  CASE op \in {"ADD", "SUB", "MUL"} -> OperandOK(RegGet(regA)) /\ OperandOK(RegGet(regB))
    [] op = "DIV" -> regB = 0 \/ (OperandOK(RegGet(regA)) /\ OperandOK(RegGet(regB)))
    [] op \in {"INC", "DEC"} -> OperandOK(RegGet(regA))
    [] OTHER -> TRUE

\* a handler whose whole body is this.alu(op, regA, regB)
aluHandler(op, regA, regB) ==
  /\ Ready
  /\ aluOperands(op, regA, regB)
  /\ Called(op, regA, regB)
  /\ reg' = alu(op, regA, regB)
  /\ ret' = Undefined
  /\ UNCHANGED <<PC, IR, FL, ram, branchTable, clock, timers, output, thrown>>

\* a method that only returns `value`
returns(name, regA, value) ==
  /\ Ready
  /\ Called(name, regA, -1)
  /\ ret' = value
  /\ UNCHANGED <<reg, PC, IR, FL, ram, branchTable, clock, timers, output, thrown>>

\* a method whose first call is to a property that is not a function
throws(name, regA, error) ==
  /\ Ready
  /\ Called(name, regA, -1)
  /\ thrown' = error
  /\ ret' = Undefined
  /\ UNCHANGED <<reg, PC, IR, FL, ram, branchTable, clock, timers, output>>

\* console.log(line)
console_log(name, regA, line) ==
  /\ Ready
  /\ Called(name, regA, -1)
  /\ output' = Append(output, line)
  /\ ret' = Undefined
  /\ UNCHANGED <<reg, PC, IR, FL, ram, branchTable, clock, timers, thrown>>

\* --------------------------------------------------------------- handlers
CPU_HLT ==
  /\ Ready
  /\ Called("HLT", -1, -1)
  /\ clock' = clearInterval[1]
  /\ timers' = clearInterval[2]
  /\ ret' = Undefined
  /\ UNCHANGED <<reg, PC, IR, FL, ram, branchTable, output, thrown>>

CPU_LDI(regNum, value) ==
  /\ Ready
  /\ Called("LDI", regNum, value)
  /\ reg' = RegSet(regNum, Num(value))
  /\ ret' = Undefined
  /\ UNCHANGED <<PC, IR, FL, ram, branchTable, clock, timers, output, thrown>>

CPU_ADD(regA, regB) == aluHandler("ADD", regA, regB)

\* this._push is not defined anywhere in the class
CPU_CALL(regA) == throws("CALL", regA, "TypeError")

CPU_CMP(regA, regB) == aluHandler("CMP", regA, regB)

CPU_DEC(regA, regB) == aluHandler("DEC", regA, regB)

CPU_DIV(regA, regB) == aluHandler("DIV", regA, regB)

CPU_INC(regA, regB) == aluHandler("INC", regA, regB)

CPU_JEQ(regA) ==
  returns("JEQ", regA, IF BitAnd(ToInt32(FL), FL_EQ) = 1 THEN RegGet(regA) ELSE Undefined)

CPU_JGT(regA) ==
  returns("JGT", regA, IF BitAnd(ToInt32(FL), FL_GT) = 2 THEN RegGet(regA) ELSE Undefined)

CPU_JLT(regA) ==
  returns("JLT", regA, IF BitAnd(ToInt32(FL), FL_LT) = 4 THEN RegGet(regA) ELSE Undefined)

CPU_JMP(regA) == returns("JMP", regA, RegGet(regA))

CPU_JNE(regA) ==
  returns("JNE", regA, IF BitAnd(ToInt32(FL), FL_EQ) = 0 THEN RegGet(regA) ELSE Undefined)

CPU_LD(regA, regB) ==
  /\ Ready
  /\ Called("LD", regA, regB)
  /\ IF ValidAddress(RegGet(regB))
       THEN reg' = RegSet(regA, ram_read(RegGet(regB))) /\ thrown' = "none"
       ELSE reg' = reg /\ thrown' = "AddressOutOfRange"
  /\ ret' = Undefined
  /\ UNCHANGED <<PC, IR, FL, ram, branchTable, clock, timers, output>>

CPU_MOD(regA, regB) == aluHandler("MOD", regA, regB)

CPU_MUL(regA, regB) == aluHandler("MUL", regA, regB)

CPU_NOT(regA) == aluHandler("NOT", regA, -1)

CPU_OR(regA, regB) == aluHandler("OR", regA, regB)

\* this._pop is not defined anywhere in the class
CPU_POP(regA) == throws("POP", regA, "TypeError")

CPU_PRA(regA) == console_log("PRA", regA, <<"char", Num(CharCode(RegGet(regA)))>>)

CPU_PRN(regA) == console_log("PRN", regA, <<"number", ParseInt(RegGet(regA))>>)

CPU_PUSH(regA) == throws("PUSH", regA, "TypeError")

CPU_RET == throws("RET", -1, "TypeError")

CPU_ST(regA, regB) ==
  /\ Ready
  /\ Called("ST", regA, regB)
  /\ IF ValidAddress(RegGet(regA))
       THEN ram' = ram_write(RegGet(regA), RegGet(regB)) /\ thrown' = "none"
       ELSE ram' = ram /\ thrown' = "AddressOutOfRange"
  /\ ret' = Undefined
  /\ UNCHANGED <<reg, PC, IR, FL, branchTable, clock, timers, output>>

CPU_SUB(regA, regB) == aluHandler("SUB", regA, regB)

CPU_XOR(regA, regB) == aluHandler("XOR", regA, regB)

\* ------------------------------------------------------------------- tick
\* operand count encoded in the top two bits of the instruction
OperandCount(ir) == (ir \div 64) % 4

\* the addresses tick() reads for operandA and operandB, whatever the opcode
tickOperandReads == {PC + 1, PC + 2}

\* the body of tick(): the fetch and the two operand reads succeed, then the
\* reference to `handler`, which no scope declares, throws before any
\* handler runs and before PC is advanced
tick ==
  /\ IF ~ValidAddress(Num(PC))
       THEN IR' = IR /\ thrown' = "AddressOutOfRange"
       ELSE /\ IR' = ram_read(Num(PC))
            /\ thrown' = IF \A a \in tickOperandReads : ValidAddress(Num(a))
                           THEN "ReferenceError"
                           ELSE "AddressOutOfRange"
  /\ ret' = Undefined
  /\ UNCHANGED <<reg, PC, FL, ram, branchTable, clock, timers, output>>

\* tick() called by the owner of the CPU
CPU_tick == Ready /\ Called("tick", -1, -1) /\ tick

\* tick() called by the interval startClock() armed
interval == Ready /\ timers > 0 /\ Called("interval", -1, -1) /\ tick

\* ------------------------------------------------------------------- next
Next ==
  \/ \E address \in PokeAddrs, value \in PokeVals : poke(address, value)
  \/ startClock
  \/ stopClock
  \/ \E flag \in Flags, value \in BOOLEAN : setFlag(flag, value)
  \/ CPU_tick
  \/ interval
  \/ CPU_HLT
  \/ \E regNum \in RegArgs, value \in ByteArgs : CPU_LDI(regNum, value)
  \/ \E regA, regB \in RegArgs : CPU_ADD(regA, regB)
  \/ \E regA \in RegArgs : CPU_CALL(regA)
  \/ \E regA, regB \in RegArgs : CPU_CMP(regA, regB)
  \/ \E regA \in RegArgs : CPU_DEC(regA, 0)
  \/ \E regA, regB \in RegArgs : CPU_DIV(regA, regB)
  \/ \E regA \in RegArgs : CPU_INC(regA, 0)
  \/ \E regA \in RegArgs : CPU_JEQ(regA)
  \/ \E regA \in RegArgs : CPU_JGT(regA)
  \/ \E regA \in RegArgs : CPU_JLT(regA)
  \/ \E regA \in RegArgs : CPU_JMP(regA)
  \/ \E regA \in RegArgs : CPU_JNE(regA)
  \/ \E regA, regB \in RegArgs : CPU_LD(regA, regB)
  \/ \E regA, regB \in RegArgs : CPU_MOD(regA, regB)
  \/ \E regA, regB \in RegArgs : CPU_MUL(regA, regB)
  \/ \E regA \in RegArgs : CPU_NOT(regA)
  \/ \E regA, regB \in RegArgs : CPU_OR(regA, regB)
  \/ \E regA \in RegArgs : CPU_POP(regA)
  \/ \E regA \in RegArgs : CPU_PRA(regA)
  \/ \E regA \in RegArgs : CPU_PRN(regA)
  \/ \E regA \in RegArgs : CPU_PUSH(regA)
  \/ CPU_RET
  \/ \E regA, regB \in RegArgs : CPU_ST(regA, regB)
  \/ \E regA, regB \in RegArgs : CPU_SUB(regA, regB)
  \/ \E regA, regB \in RegArgs : CPU_XOR(regA, regB)

Spec == Init /\ [][Next]_vars

\* the owner of the CPU only calls setFlag
NextFlags == \E flag \in Flags, value \in BOOLEAN : setFlagSeries(flag, value)

SpecFlags == Init /\ [][NextFlags]_vars

\* ======================================================================
\* Vocabulary of the properties
\* ======================================================================
\* the byte a value holds, -1 when it is not an integer
Byte(v) == IF IsInt(v) THEN v[1] ELSE -1

\* this step is a tick: a direct call of tick() or the interval firing
Ticked == last'[1] \in {"tick", "interval"}

\* this step executes the instruction `name`: its handler is called, or a
\* tick fetches its opcode at PC
Executes(name, opcode) == last'[1] = name \/ (Ticked /\ ram[PC] = Num(opcode))

\* the operand bytes of the instruction this step executes
OperandA == IF Ticked THEN Byte(ram[PC + 1]) ELSE last'[2]
OperandB == IF Ticked THEN Byte(ram[PC + 2]) ELSE last'[3]

\* the opcode byte has a handler in the dispatch table
HasHandler(byte) == byte \in DOMAIN branchTable /\ branchTable[byte] # "undefined"

\* the flag bit is set in Flags
FlagSet(flag) == BitAnd(ToInt32(FL), flag) = flag

\* ======================================================================
\* Properties
\* ======================================================================

\* C1: the program [LDI,R0,8, LDI,R1,9, ADD,R0,R1, PRN,R0, HLT], run by the
\* clock from the initial state, prints exactly the line 17 and halts: once a
\* clock tick has ended the run of that program, the run ended without a
\* fault and the output is the single line 17.
C1_Prints17ThenHalts ==
  (ram = Image(Add17) /\ last[1] = "interval" /\ (thrown # "none" \/ timers = 0))
    => (thrown = "none" /\ timers = 0 /\ output = << <<"number", Num(17)>> >>)

\* C2: a tick that fetches a byte with no registered handler reports
\* UnknownOpcode and halts in that tick, with the general registers, memory
\* and PC unchanged.
C2_UnknownOpcodeHalts ==
  [][(Ticked /\ ~HasHandler(Byte(ram[PC])))
       => (thrown' = "UnknownOpcode" /\ reg' = reg /\ ram' = ram /\ PC' = PC)]_vars

\* C3: once HLT has executed the engine is halted (the clock is stopped, no
\* fault) and a tick requested afterwards fetches nothing and changes
\* neither PC, the registers, memory nor the output.
C3_HaltIsTerminal ==
  [][/\ Executes("HLT", HLT) => (thrown' = "none" /\ timers' = 0)
     /\ (last[1] = "HLT" /\ Ticked)
          => (thrown' = "none" /\ IR' = IR /\ PC' = PC /\ reg' = reg /\ ram' = ram
              /\ output' = output)]_vars

\* the condition under which the instruction redirects control
JumpTaken(opcode) ==
  \/ opcode \in {JMP, CALL}
  \/ opcode = JEQ /\ FlagSet(FL_EQ)
  \/ opcode = JGT /\ FlagSet(FL_GT)
  \/ opcode = JLT /\ FlagSet(FL_LT)
  \/ opcode = JNE /\ ~FlagSet(FL_EQ)

\* C4: a tick that executes JMP, CALL or a conditional jump whose condition
\* holds leaves PC equal to the operand register's value, and one that
\* executes RET leaves PC equal to the return address on top of the stack.
C4_JumpSetsPC ==
  [][/\ (Ticked /\ JumpTaken(Byte(ram[PC])) /\ Byte(ram[PC + 1]) \in 0..(NumRegs - 1))
          => Num(PC') = reg[Byte(ram[PC + 1])]
     /\ (Ticked /\ ram[PC] = Num(RET) /\ ValidAddress(reg[SP]))
          => Num(PC') = ram_read(reg[SP])]_vars

\* C5: CALL at address p pushes p + 2 (Stack Pointer decremented, the return
\* address written there) and sets PC to the operand register's value; RET
\* sets PC to the address on top of the stack and increments Stack Pointer.
C5_CallThenRet ==
  [][/\ (Executes("CALL", CALL) /\ ValidAddress(JsSub(reg[SP], Num(1))))
          => /\ thrown' = "none"
             /\ reg'[SP] = JsSub(reg[SP], Num(1))
             /\ ram' = ram_write(reg'[SP], Num(PC + 2))
             /\ Num(PC') = RegGet(OperandA)
     /\ (Executes("RET", RET) /\ ValidAddress(reg[SP]))
          => /\ thrown' = "none"
             /\ Num(PC') = ram_read(reg[SP])
             /\ reg'[SP] = JsAdd(reg[SP], Num(1))]_vars

\* C6: a tick that executes JEQ, JGT, JLT or JNE at address p leaves PC equal
\* to the operand register's value when its condition on Flags holds and to
\* p + 2 otherwise, with Flags and the general registers unchanged.
C6_ConditionalJump ==
  [][(Ticked /\ Byte(ram[PC]) \in {JEQ, JGT, JLT, JNE}
        /\ Byte(ram[PC + 1]) \in 0..(NumRegs - 1))
       => /\ Num(PC') = IF JumpTaken(Byte(ram[PC]))
                          THEN reg[Byte(ram[PC + 1])]
                          ELSE Num(PC + 2)
          /\ FL' = FL
          /\ reg' = reg]_vars

\* the one flag CMP is to set for operand values a and b
CmpFlag(a, b) == IF a = b THEN FL_EQ ELSE IF a > b THEN FL_GT ELSE FL_LT

\* C7: after CMP regA, regB exactly one of EQUAL, GREATER, LESS is set in
\* Flags, the one that describes reg[regA] against reg[regB], and no general
\* register is written.
C7_CmpSetsOneFlag ==
  [][(Executes("CMP", CMP) /\ IsInt(RegGet(OperandA)) /\ IsInt(RegGet(OperandB)))
       => /\ BitAnd(ToInt32(FL'), FL_EQ + FL_GT + FL_LT)
               = CmpFlag(RegGet(OperandA)[1], RegGet(OperandB)[1])
          /\ reg' = reg]_vars

\* C8: PUSH r decrements Stack Pointer and writes r's value there; a POP r2
\* that immediately follows reads the value at Stack Pointer into r2 and
\* increments Stack Pointer, so PUSH r then POP r2 copies r into r2, leaves r
\* unchanged and restores Stack Pointer.
C8_PushThenPop ==
  [][/\ (Executes("PUSH", PUSH) /\ OperandA \in 0..(SP - 1)
           /\ ValidAddress(JsSub(reg[SP], Num(1))))
          => /\ thrown' = "none"
             /\ reg' = [reg EXCEPT ![SP] = JsSub(reg[SP], Num(1))]
             /\ ram' = ram_write(reg'[SP], reg[OperandA])
     /\ (last[1] = "PUSH" /\ Executes("POP", POP) /\ OperandA \in 0..(SP - 1)
           /\ ValidAddress(reg[SP]))
          => /\ thrown' = "none"
             /\ reg' = [reg EXCEPT ![OperandA] = ram_read(reg[SP]),
                                   ![SP] = JsAdd(reg[SP], Num(1))]
             /\ ram' = ram]_vars

\* C9: DIV or MOD whose divisor register holds 0 halts with DivisionByZero
\* and leaves reg[regA] as it was; with a non-zero divisor it does not fault.
C9_DivisionByZero ==
  [][((Executes("DIV", DIV) \/ Executes("MOD", MOD))
        /\ OperandA \in 0..(NumRegs - 1) /\ OperandB \in 0..(NumRegs - 1))
       => IF reg[OperandB] = Num(0)
            THEN thrown' = "DivisionByZero" /\ reg'[OperandA] = reg[OperandA]
            ELSE thrown' = "none"]_vars

\* the result wrapped to an unsigned byte
Wrap(n) == n % 256

\* C10: for register values a, b in 0..255, ADD, SUB and MUL leave reg[regA]
\* equal to (a + b) mod 256, (a - b) mod 256 and (a * b) mod 256, and leave
\* reg[regB] unchanged when regA differs from regB.
C10_ArithmeticWraps ==
  [][\A regA, regB \in 0..(NumRegs - 1) :
       (OperandA = regA /\ OperandB = regB
          /\ Byte(reg[regA]) \in 0..255 /\ Byte(reg[regB]) \in 0..255)
         => LET a == reg[regA][1]
                b == reg[regB][1]
            IN /\ Executes("ADD", ADD) => reg'[regA] = Num(Wrap(a + b))
               /\ Executes("SUB", SUB) => reg'[regA] = Num(Wrap(a - b))
               /\ Executes("MUL", MUL) => reg'[regA] = Num(Wrap(a * b))
               /\ (Executes("ADD", ADD) \/ Executes("SUB", SUB) \/ Executes("MUL", MUL))
                    => (regA # regB => reg'[regB] = reg[regB])]_vars

\* every general register and every memory cell holds an integer in 0..255
BytesEverywhere ==
  /\ \A r \in 0..(NumRegs - 1) : Byte(reg[r]) \in 0..255
  /\ \A address \in 0..(MemSize - 1) : Byte(ram[address]) \in 0..255

\* C11: every general register R0..R7 and every memory cell holds an integer
\* in 0..255 in every reachable state: INC, DEC, DIV and ST on valid register
\* operands take a state where that is so to a state where it is so.
C11_BytesEverywhere ==
  [][(BytesEverywhere
        /\ (Executes("INC", INC) \/ Executes("DEC", DEC) \/ Executes("DIV", DIV)
              \/ Executes("ST", ST))
        /\ OperandA \in 0..(NumRegs - 1) /\ OperandB \in 0..(NumRegs - 1))
       => BytesEverywhere']_vars

\* C12: for r in 0..7 and v in 0..255, after a tick that executes LDI r, v
\* register r holds v, every other general register and every memory cell is
\* unchanged, and PC has advanced by 3.
C12_LdiLoadsImmediate ==
  [][(Ticked /\ ram[PC] = Num(LDI) /\ OperandA \in 0..(NumRegs - 1)
        /\ OperandB \in 0..255)
       => /\ reg' = [reg EXCEPT ![OperandA] = Num(OperandB)]
          /\ ram' = ram
          /\ PC' = PC + 3]_vars

\* C13: an instruction whose register operand byte is outside 0..7 fails
\* with InvalidRegister, leaving the general registers and the special slots
\* unchanged, and the register file never gains a slot beyond R0..R7.
C13_InvalidRegister ==
  [][/\ DOMAIN reg' = 0..(NumRegs - 1)
     /\ ((Executes("LDI", LDI) \/ Executes("PRN", PRN) \/ Executes("ADD", ADD))
           /\ OperandA \notin 0..(NumRegs - 1))
          => (thrown' = "InvalidRegister" /\ reg' = reg /\ PC' = PC /\ FL' = FL)]_vars

\* the 30 opcode bytes of the instruction set
Opcodes ==
  {NOP, HLT, INC, DEC, ADD, SUB, MUL, DIV, MOD, OR, XOR, AND, NOT, CMP, LDI,
   LD, ST, PRN, PRA, POP, PUSH, CALL, RET, JMP, JEQ, JNE, JLT, JGT, INT, IRET}

\* C14: in every state from construction on, the dispatch table maps each of
\* the 30 opcode bytes to a defined handler and every other byte in 0..255
\* to no handler.
C14_DispatchTable ==
  \A byte \in 0..255 : HasHandler(byte) <=> byte \in Opcodes

\* C15: PUSH, CALL, POP and RET leave Stack Pointer an address in 0..255, and a
\* PUSH or CALL that would move it below 0, or a POP or RET that would move it
\* above 255, halts with StackFault without writing memory or changing PC.
C15_StackFault ==
  [][/\ (Executes("PUSH", PUSH) \/ Executes("CALL", CALL) \/ Executes("POP", POP)
           \/ Executes("RET", RET))
          => Byte(reg'[SP]) \in 0..255
     /\ ((Executes("PUSH", PUSH) \/ Executes("CALL", CALL))
           /\ OperandA \in 0..(SP - 1) /\ reg[SP] = Num(0))
          => (thrown' = "StackFault" /\ ram' = ram /\ PC' = PC)
     /\ (((Executes("POP", POP) /\ OperandA \in 0..(SP - 1)) \/ Executes("RET", RET))
           /\ reg[SP] = Num(MemSize - 1))
          => (thrown' = "StackFault" /\ ram' = ram /\ PC' = PC)]_vars

\* the instructions that neither set PC nor can fault on valid registers
Sequential == {LDI, INC, DEC, ADD, SUB, MUL, CMP, PRN, PRA}

\* C16: a tick that executes an instruction that does not set PC and does
\* not fault leaves PC advanced by 1 plus the operand count in the top two
\* bits of the opcode.
C16_PCAdvances ==
  [][(Ticked /\ Byte(ram[PC]) \in Sequential /\ HasHandler(Byte(ram[PC]))
        /\ Byte(ram[PC + 1]) \in 0..(NumRegs - 1)
        /\ (ram[PC] = Num(LDI) \/ OperandCount(Byte(ram[PC])) < 2
              \/ Byte(ram[PC + 2]) \in 0..(NumRegs - 1))
        /\ ValidAddress(Num(PC + 1 + OperandCount(Byte(ram[PC])))))
       => PC' = PC + 1 + OperandCount(Byte(ram[PC]))]_vars

\* the flag bit is set in the Flags value fl (an unwritten Flags has no bit set)
FlagBit(fl, flag) == BitAnd(ToInt32(fl), flag) = flag

\* C17: for every flag in {EQUAL, GREATER, LESS}, every boolean value and
\* every prior Flags value, the never-written Flags of a fresh CPU included,
\* setFlag(flag, value) leaves that flag's bit equal to value and the other
\* two flag bits as they were.
C17_SetFlagOneBit ==
  [][\A flag \in Flags :
       (last'[1] = "setFlag" /\ last'[2] = flag)
         => /\ FlagBit(FL', flag) = (last'[3] = 1)
            /\ \A other \in Flags \ {flag} : FlagBit(FL', other) = FlagBit(FL, other)]_vars

\* setFlag(EQUAL, false) has returned with GREATER and LESS still set
C17_ClearedEqualKeptOthers ==
  last = <<"setFlag", FL_EQ, 0>> /\ FL = Num(FL_GT + FL_LT)

\* C19: a tick reads memory only at PC and at the operand-count addresses
\* that follow it, so that an instruction with fewer than two operands reads
\* nothing beyond its own bytes.
C19_ReadsOnlyOperands ==
  [][(Ticked /\ HasHandler(Byte(ram[PC])))
       => tickOperandReads \subseteq (PC + 1)..(PC + OperandCount(Byte(ram[PC])))]_vars

====
